---- MODULE Spec2Model ----
(***************************************************************************)
(* Model of the repository engine of the media catalog                     *)
(* (src/src/sqlite_repo.rs, src/src/models.rs, src/src/repo.rs).           *)
(*                                                                         *)
(* The store is one SQLite table `media`.  A row is a record of the        *)
(* stored column values (integer codes, integer seconds); a MediaItem is   *)
(* the in-memory record (enum names, instants with a sub-second part).     *)
(* Text is a sequence of character codes, an Option is <<>> (None) or      *)
(* <<x>> (Some(x)); an SQL NULL is the stored None.                        *)
(*                                                                         *)
(* schema, table and seq are the store: whether init has made the table,   *)
(* its rows, and the AUTOINCREMENT counter.  call, ret, item and prev are   *)
(* the last call of a single caller: the method and its arguments, what it *)
(* returned, the caller's record after it, and the rows before it.  issued *)
(* is the ids add has returned, in order.  lock, pc and local are the      *)
(* Mutex around the connection and the callers that contend for it.        *)
(***************************************************************************)
EXTENDS Integers, Sequences, FiniteSets, TLC

VARIABLES schema, table, seq, prev, call, ret, item, issued, lock, pc, local

vars == <<schema, table, seq, prev, call, ret, item, issued, lock, pc, local>>

(***************************************************************************)
(* Bounds of the model.                                                    *)
(***************************************************************************)
\* most rows the table holds at once
MaxRows == 2
\* highest id the AUTOINCREMENT counter hands out
MaxSeq == 3
\* sub-second steps of an instant per whole second
TicksPerSec == 2
\* most calls one thread makes
MaxCalls == 3
\* largest magnitude of a stored integer code handed to the decoders
MaxCode == 25

(***************************************************************************)
(* Options and text.                                                       *)
(***************************************************************************)
None == <<>>

Some(x) == <<x>>

IsSome(o) == o # None

Unwrap(o) == o[1]

\* character codes (ASCII) of the characters the inputs are written with
Ch == [space |-> 32, percent |-> 37, A |-> 65, B |-> 66, underscore |-> 95,
       a |-> 97, b |-> 98, n |-> 110, p |-> 112]

\* char::is_whitespace, on the ASCII range
IsWhitespace(c) == c \in {9, 10, 11, 12, 13, 32}

RECURSIVE TrimStart(_)
TrimStart(s) ==
    IF s = <<>> THEN <<>>
    ELSE IF IsWhitespace(Head(s)) THEN TrimStart(Tail(s)) ELSE s

RECURSIVE TrimEnd(_)
TrimEnd(s) ==
    IF s = <<>> THEN <<>>
    ELSE IF IsWhitespace(s[Len(s)]) THEN TrimEnd(SubSeq(s, 1, Len(s) - 1)) ELSE s

\* str::trim
Trim(s) == TrimEnd(TrimStart(s))

(***************************************************************************)
(* models.rs: the enumerations, and their integer codes (sqlite_repo.rs).  *)
(***************************************************************************)
Category == {"Book", "Movie", "Game", "Music", "Other"}

Status == {"Planned", "InProgress", "Finished"}

SortField == {"Title", "Category", "Status", "Rating", "CreatedAt", "UpdatedAt"}

SortOrder == {"Asc", "Desc"}

cat_to_i(c) ==
    CASE c = "Book" -> 0
      [] c = "Movie" -> 1
      [] c = "Game" -> 2
      [] c = "Music" -> 3
      [] c = "Other" -> 4

\* a decoder that reads every negative code as the first category
i_to_cat_clamped(i) ==
    CASE i <= 0 -> "Book"
      [] i = 1 -> "Movie"
      [] i = 2 -> "Game"
      [] i = 3 -> "Music"
      [] OTHER -> "Other"

i_to_cat(i) ==
    CASE i = 0 -> "Book"
      [] i = 1 -> "Movie"
      [] i = 2 -> "Game"
      [] i = 3 -> "Music"
      [] OTHER -> "Other"

status_to_i(s) ==
    CASE s = "Planned" -> 0
      [] s = "InProgress" -> 1
      [] s = "Finished" -> 2

i_to_status(i) ==
    CASE i = 1 -> "InProgress"
      [] i = 2 -> "Finished"
      [] OTHER -> "Planned"

\* Category::as_str
cat_as_str(c) == c

(***************************************************************************)
(* Instants.  A DateTime<Local> is a count of ticks since the epoch,       *)
(* TicksPerSec ticks to the second.                                        *)
(***************************************************************************)
\* DateTime::timestamp: whole seconds since the epoch, rounded down
timestamp(dt) == dt \div TicksPerSec

\* Local.timestamp_opt(secs, 0).unwrap(): the instant at that whole second
timestamp_opt(secs) == secs * TicksPerSec

\* `r as u8` on an i64
as_u8(r) == r % 256

(***************************************************************************)
(* The records.                                                            *)
(***************************************************************************)
MediaItem(id, title, category, status, rating, notes, cover_path, created_at, updated_at) ==
    [id |-> id, title |-> title, category |-> category, status |-> status,
     rating |-> rating, notes |-> notes, cover_path |-> cover_path,
     created_at |-> created_at, updated_at |-> updated_at]

\* MediaItem::new, at the instant `now`
MediaItemNew(title, category, now) ==
    MediaItem(None, title, category, "Planned", None, None, None, now, now)

Query(title_substr, category, status, min_rating, sort_field, sort_order) ==
    [title_substr |-> title_substr, category |-> category, status |-> status,
     min_rating |-> min_rating, sort_field |-> sort_field, sort_order |-> sort_order]

\* Query::default
QueryDefault == Query(<<>>, None, None, None, "Title", "Asc")

\* InsertRow with the two timestamp parameters bound in each other's place
InsertRow_swapped(id, it) ==
    [id |-> id,
     title |-> it.title,
     category |-> cat_to_i(it.category),
     status |-> status_to_i(it.status),
     rating |-> IF IsSome(it.rating) THEN Some(Unwrap(it.rating)) ELSE None,
     notes |-> it.notes,
     cover_path |-> it.cover_path,
     created_at |-> timestamp(it.updated_at),
     updated_at |-> timestamp(it.created_at)]

\* the values bound to the INSERT statement of add, with the new rowid
InsertRow(id, it) ==
    [id |-> id,
     title |-> it.title,
     category |-> cat_to_i(it.category),
     status |-> status_to_i(it.status),
     rating |-> IF IsSome(it.rating) THEN Some(Unwrap(it.rating)) ELSE None,
     notes |-> it.notes,
     cover_path |-> it.cover_path,
     created_at |-> timestamp(it.created_at),
     updated_at |-> timestamp(it.updated_at)]

\* UpdateRow with created_at in the SET list too
UpdateRow_created(r, it) ==
    [r EXCEPT
       !.title = it.title,
       !.category = cat_to_i(it.category),
       !.status = status_to_i(it.status),
       !.rating = IF IsSome(it.rating) THEN Some(Unwrap(it.rating)) ELSE None,
       !.notes = it.notes,
       !.cover_path = it.cover_path,
       !.created_at = timestamp(it.created_at),
       !.updated_at = timestamp(it.updated_at)]

\* the SET list of the UPDATE statement of update, applied to row r
UpdateRow(r, it) ==
    [r EXCEPT
       !.title = it.title,
       !.category = cat_to_i(it.category),
       !.status = status_to_i(it.status),
       !.rating = IF IsSome(it.rating) THEN Some(Unwrap(it.rating)) ELSE None,
       !.notes = it.notes,
       !.cover_path = it.cover_path,
       !.updated_at = timestamp(it.updated_at)]

row_to_item(row) ==
    MediaItem(Some(row.id), row.title, i_to_cat(row.category), i_to_status(row.status),
              IF IsSome(row.rating) THEN Some(as_u8(Unwrap(row.rating))) ELSE None,
              row.notes, row.cover_path,
              timestamp_opt(row.created_at), timestamp_opt(row.updated_at))

(***************************************************************************)
(* What SQLite does with the statements of sqlite_repo.rs.                 *)
(***************************************************************************)
\* LIKE folds the case of ASCII letters only
LikeFold(c) == IF c >= 65 /\ c <= 90 THEN c + 32 ELSE c

\* x LIKE pat with no ESCAPE: % is any run of characters, _ any one character
RECURSIVE LikeMatch(_, _)
LikeMatch(pat, str) ==
    IF pat = <<>> THEN str = <<>>
    ELSE IF Head(pat) = Ch.percent
         THEN LikeMatch(Tail(pat), str)
              \/ (str # <<>> /\ LikeMatch(pat, Tail(str)))
    ELSE IF Head(pat) = Ch.underscore
         THEN str # <<>> /\ LikeMatch(Tail(pat), Tail(str))
    ELSE str # <<>> /\ LikeFold(Head(pat)) = LikeFold(Head(str))
         /\ LikeMatch(Tail(pat), Tail(str))

\* the parameter list: format!("%{}%", q.title_substr.trim())
LikePattern(substr) == <<Ch.percent>> \o Trim(substr) \o <<Ch.percent>>

\* list: the WHERE clauses with their bound parameters, in the order pushed
WhereClauses(q) ==
    (IF Trim(q.title_substr) # <<>>
     THEN <<[clause |-> "title LIKE ?", param |-> LikePattern(q.title_substr)]>>
     ELSE <<>>)
    \o (IF IsSome(q.category)
        THEN <<[clause |-> "category = ?", param |-> cat_to_i(Unwrap(q.category))]>>
        ELSE <<>>)
    \o (IF IsSome(q.status)
        THEN <<[clause |-> "status = ?", param |-> status_to_i(Unwrap(q.status))]>>
        ELSE <<>>)
    \o (IF IsSome(q.min_rating)
        THEN <<[clause |-> "rating >= ?", param |-> Unwrap(q.min_rating)]>>
        ELSE <<>>)

\* one clause on one row; a comparison with NULL is not true
ClauseHolds(c, row) ==
    CASE c.clause = "title LIKE ?" -> LikeMatch(c.param, row.title)
      [] c.clause = "category = ?" -> row.category = c.param
      [] c.clause = "status = ?" -> row.status = c.param
      [] c.clause = "rating >= ?" -> IsSome(row.rating) /\ Unwrap(row.rating) >= c.param

\* where_clauses.join(" AND "); no clause, no WHERE
WhereHolds(q, row) ==
    \A i \in 1..Len(WhereClauses(q)) : ClauseHolds(WhereClauses(q)[i], row)

\* list: the ORDER BY terms chosen by (sort_field, sort_order)
OrderTerm(col, dir, nulls) == [col |-> col, dir |-> dir, nulls |-> nulls]

\* OrderBy with "rating ASC" left to the default place of NULL
OrderBy_nullsFirst(sort_field, sort_order) ==
    CASE sort_field = "Title" /\ sort_order = "Asc" ->
           <<OrderTerm("title", "ASC", "")>>
      [] sort_field = "Title" /\ sort_order = "Desc" ->
           <<OrderTerm("title", "DESC", "")>>
      [] sort_field = "Category" /\ sort_order = "Asc" ->
           <<OrderTerm("category", "ASC", ""), OrderTerm("title", "ASC", "")>>
      [] sort_field = "Category" /\ sort_order = "Desc" ->
           <<OrderTerm("category", "DESC", ""), OrderTerm("title", "ASC", "")>>
      [] sort_field = "Status" /\ sort_order = "Asc" ->
           <<OrderTerm("status", "ASC", ""), OrderTerm("updated_at", "DESC", "")>>
      [] sort_field = "Status" /\ sort_order = "Desc" ->
           <<OrderTerm("status", "DESC", ""), OrderTerm("updated_at", "DESC", "")>>
      [] sort_field = "Rating" /\ sort_order = "Asc" ->
           <<OrderTerm("rating", "ASC", ""), OrderTerm("title", "ASC", "")>>
      [] sort_field = "Rating" /\ sort_order = "Desc" ->
           <<OrderTerm("rating", "DESC", "NULLS LAST"), OrderTerm("title", "ASC", "")>>
      [] sort_field = "CreatedAt" /\ sort_order = "Asc" ->
           <<OrderTerm("created_at", "ASC", "")>>
      [] sort_field = "CreatedAt" /\ sort_order = "Desc" ->
           <<OrderTerm("created_at", "DESC", "")>>
      [] sort_field = "UpdatedAt" /\ sort_order = "Asc" ->
           <<OrderTerm("updated_at", "ASC", "")>>
      [] sort_field = "UpdatedAt" /\ sort_order = "Desc" ->
           <<OrderTerm("updated_at", "DESC", "")>>

\* OrderBy with the title tie-break following the direction of the category
OrderBy_titleFlips(sort_field, sort_order) ==
    CASE sort_field = "Title" /\ sort_order = "Asc" ->
           <<OrderTerm("title", "ASC", "")>>
      [] sort_field = "Title" /\ sort_order = "Desc" ->
           <<OrderTerm("title", "DESC", "")>>
      [] sort_field = "Category" /\ sort_order = "Asc" ->
           <<OrderTerm("category", "ASC", ""), OrderTerm("title", "ASC", "")>>
      [] sort_field = "Category" /\ sort_order = "Desc" ->
           <<OrderTerm("category", "DESC", ""), OrderTerm("title", "DESC", "")>>
      [] sort_field = "Status" /\ sort_order = "Asc" ->
           <<OrderTerm("status", "ASC", ""), OrderTerm("updated_at", "DESC", "")>>
      [] sort_field = "Status" /\ sort_order = "Desc" ->
           <<OrderTerm("status", "DESC", ""), OrderTerm("updated_at", "DESC", "")>>
      [] sort_field = "Rating" /\ sort_order = "Asc" ->
           <<OrderTerm("rating", "ASC", "NULLS LAST"), OrderTerm("title", "ASC", "")>>
      [] sort_field = "Rating" /\ sort_order = "Desc" ->
           <<OrderTerm("rating", "DESC", "NULLS LAST"), OrderTerm("title", "ASC", "")>>
      [] sort_field = "CreatedAt" /\ sort_order = "Asc" ->
           <<OrderTerm("created_at", "ASC", "")>>
      [] sort_field = "CreatedAt" /\ sort_order = "Desc" ->
           <<OrderTerm("created_at", "DESC", "")>>
      [] sort_field = "UpdatedAt" /\ sort_order = "Asc" ->
           <<OrderTerm("updated_at", "ASC", "")>>
      [] sort_field = "UpdatedAt" /\ sort_order = "Desc" ->
           <<OrderTerm("updated_at", "DESC", "")>>

\* the match on (q.sort_field, q.sort_order)
OrderBy(sort_field, sort_order) ==
    CASE sort_field = "Title" /\ sort_order = "Asc" ->
           <<OrderTerm("title", "ASC", "")>>
      [] sort_field = "Title" /\ sort_order = "Desc" ->
           <<OrderTerm("title", "DESC", "")>>
      [] sort_field = "Category" /\ sort_order = "Asc" ->
           <<OrderTerm("category", "ASC", ""), OrderTerm("title", "ASC", "")>>
      [] sort_field = "Category" /\ sort_order = "Desc" ->
           <<OrderTerm("category", "DESC", ""), OrderTerm("title", "ASC", "")>>
      [] sort_field = "Status" /\ sort_order = "Asc" ->
           <<OrderTerm("status", "ASC", ""), OrderTerm("updated_at", "DESC", "")>>
      [] sort_field = "Status" /\ sort_order = "Desc" ->
           <<OrderTerm("status", "DESC", ""), OrderTerm("updated_at", "DESC", "")>>
      [] sort_field = "Rating" /\ sort_order = "Asc" ->
           <<OrderTerm("rating", "ASC", "NULLS LAST"), OrderTerm("title", "ASC", "")>>
      [] sort_field = "Rating" /\ sort_order = "Desc" ->
           <<OrderTerm("rating", "DESC", "NULLS LAST"), OrderTerm("title", "ASC", "")>>
      [] sort_field = "CreatedAt" /\ sort_order = "Asc" ->
           <<OrderTerm("created_at", "ASC", "")>>
      [] sort_field = "CreatedAt" /\ sort_order = "Desc" ->
           <<OrderTerm("created_at", "DESC", "")>>
      [] sort_field = "UpdatedAt" /\ sort_order = "Asc" ->
           <<OrderTerm("updated_at", "ASC", "")>>
      [] sort_field = "UpdatedAt" /\ sort_order = "Desc" ->
           <<OrderTerm("updated_at", "DESC", "")>>

IntCmp(a, b) == IF a < b THEN -1 ELSE IF a > b THEN 1 ELSE 0

\* BINARY collation: byte by byte, a proper prefix first
RECURSIVE TextCmp(_, _)
TextCmp(a, b) ==
    IF a = <<>> /\ b = <<>> THEN 0
    ELSE IF a = <<>> THEN -1
    ELSE IF b = <<>> THEN 1
    ELSE IF Head(a) # Head(b) THEN IntCmp(Head(a), Head(b))
    ELSE TextCmp(Tail(a), Tail(b))

\* the place of row a relative to row b under one ORDER BY term: -1 before,
\* 1 after, 0 tie.  NULL is the smallest value, so first under ASC and last
\* under DESC, unless NULLS LAST puts it last.
TermCmp(t, a, b) ==
    LET flip(c) == IF t.dir = "DESC" THEN 0 - c ELSE c
        nullFirst == t.dir = "ASC" /\ t.nulls # "NULLS LAST"
    IN  CASE t.col = "title" -> flip(TextCmp(a.title, b.title))
          [] t.col = "rating" ->
               IF ~IsSome(a.rating) /\ ~IsSome(b.rating) THEN 0
               ELSE IF ~IsSome(a.rating) THEN (IF nullFirst THEN -1 ELSE 1)
               ELSE IF ~IsSome(b.rating) THEN (IF nullFirst THEN 1 ELSE -1)
               ELSE flip(IntCmp(Unwrap(a.rating), Unwrap(b.rating)))
          [] OTHER -> flip(IntCmp(a[t.col], b[t.col]))

RECURSIVE RowCmp(_, _, _)
RowCmp(terms, a, b) ==
    IF terms = <<>> THEN 0
    ELSE IF TermCmp(Head(terms), a, b) # 0 THEN TermCmp(Head(terms), a, b)
    ELSE RowCmp(Tail(terms), a, b)

\* the orders in which a statement may return the rows of S: every
\* arrangement of S the ORDER BY terms allow (rows the terms tie come in an
\* order SQL leaves open)
Arrangements(S, terms) ==
    {s \in [1..Cardinality(S) -> S] :
        /\ \A i, j \in 1..Cardinality(S) : i # j => s[i] # s[j]
        /\ \A i, j \in 1..Cardinality(S) : i < j => RowCmp(terms, s[i], s[j]) <= 0}

\* list: the sequences of records the query may return from table t
ListResults(t, q) ==
    {[i \in 1..Len(s) |-> row_to_item(s[i])] :
        s \in Arrangements({r \in t : WhereHolds(q, r)},
                           OrderBy(q.sort_field, q.sort_order))}

\* get: the row with that id, if any
GetResult(t, id) ==
    IF \E r \in t : r.id = id
    THEN Some(row_to_item(CHOOSE r \in t : r.id = id))
    ELSE None

\* CountAll as SELECT COUNT(rating), which skips the rows with no rating
CountAll_rated(t) == Cardinality({r \in t : IsSome(r.rating)})

\* stats: SELECT COUNT(*) FROM media
CountAll(t) == Cardinality(t)

\* stats: SELECT COUNT(*) FROM media WHERE status = ?1, bound to Finished
CountFinished(t) == Cardinality({r \in t : r.status = status_to_i("Finished")})

\* CategoryGroup counting only the rows of the group that are not finished
CategoryGroup_open(t, code) ==
    <<cat_as_str(i_to_cat(code)),
      Cardinality({r \in t : r.category = code /\ r.status # status_to_i("Finished")})>>

\* stats: one (name, count) per group of SELECT category, COUNT(*) ... GROUP BY category
CategoryGroup(t, code) ==
    <<cat_as_str(i_to_cat(code)), Cardinality({r \in t : r.category = code})>>

\* stats: the snapshots the three statements may give on table t (the groups
\* come in an order SQL leaves open)
StatsResults(t) ==
    LET codes == {r.category : r \in t}
        total == CountAll(t)
        finished == CountFinished(t)
        unfinished == total - finished
    IN  {[total |-> total,
          by_category |-> [i \in 1..Cardinality(codes) |-> CategoryGroup(t, g[i])],
          finished |-> finished,
          unfinished |-> unfinished] :
            g \in {f \in [1..Cardinality(codes) -> codes] :
                     \A i, j \in 1..Cardinality(codes) : i # j => f[i] # f[j]}}

(***************************************************************************)
(* The statements that write.                                              *)
(***************************************************************************)
Max(S) == CHOOSE x \in S : \A y \in S : y <= x

\* an id taken from the number of rows in the table
NextRowid_count(t, sq) == Cardinality(t) + 1

\* id INTEGER PRIMARY KEY without AUTOINCREMENT: one more than the largest
\* rowid now in the table
NextRowid_maxOnly(t, sq) == Max({0} \cup {r.id : r \in t}) + 1

\* id INTEGER PRIMARY KEY AUTOINCREMENT: one more than the largest rowid the
\* table has ever held (sqlite_sequence keeps it in sq)
NextRowid(t, sq) == Max({sq} \cup {r.id : r \in t}) + 1

\* UpdateRows with the WHERE clause left out when the record has no id
UpdateRows_noWhere(t, it) ==
    {IF ~IsSome(it.id) \/ r.id = Unwrap(it.id) THEN UpdateRow(r, it) ELSE r : r \in t}

\* UPDATE media SET ... WHERE id=?8; a NULL id equals no row's id
UpdateRows(t, it) ==
    {IF IsSome(it.id) /\ r.id = Unwrap(it.id) THEN UpdateRow(r, it) ELSE r : r \in t}

\* DeleteRows with WHERE id <= ?1
DeleteRows_upTo(t, id) == {r \in t : r.id > id}

\* DELETE FROM media WHERE id = ?1
DeleteRows(t, id) == {r \in t : r.id # id}

(***************************************************************************)
(* The inputs.                                                             *)
(***************************************************************************)
\* the records a caller passes to add, before they have an id
Items ==
    { MediaItemNew(<<Ch.a>>, "Book", 1),
      MediaItem(None, <<Ch.A>>, "Book", "Finished", Some(9), Some(<<Ch.n>>), None, 0, 3),
      MediaItem(None, <<Ch.a, Ch.b>>, "Movie", "Planned", Some(9), None, Some(<<Ch.p>>), 2, 2),
      MediaItem(None, <<Ch.b>>, "Movie", "Finished", Some(4), None, None, 2, 5),
      MediaItem(None, <<Ch.B>>, "Other", "InProgress", None, Some(<<>>), Some(<<Ch.p>>), 3, 4),
      MediaItem(None, <<Ch.percent>>, "Game", "Planned", Some(0), None, None, -1, 1) }

\* the ids a caller asks for: no row ever has id 0
Ids == 0..MaxSeq

\* the records a caller passes to update: fetched records as the forms edit
\* them (a later updated_at, the created_at the caller happens to hold),
\* under any id or none
UpdateItems ==
    {[it EXCEPT !.id = oid] :
        it \in { MediaItem(None, <<Ch.A>>, "Book", "Finished", Some(9), Some(<<Ch.n>>), None, 0, 3),
                 MediaItem(None, <<Ch.a, Ch.b>>, "Music", "InProgress", None, None, Some(<<Ch.p>>), 5, 7) },
        oid \in {None} \cup {Some(i) : i \in Ids}}

QueryTitles == {<<>>, <<Ch.space>>, <<Ch.a>>, <<Ch.space, Ch.B, Ch.space>>,
                <<Ch.percent>>, <<Ch.underscore>>}

\* the title filter alone
TitleQueries == {Query(t, None, None, None, "Title", "Asc") : t \in QueryTitles}

\* the filters together
FilterQueries ==
    {Query(t, c, s, m, "Title", "Asc") :
        t \in {<<>>, <<Ch.a>>}, c \in {None, Some("Book")},
        s \in {None, Some("Finished")}, m \in {None, Some(0), Some(5)}}

\* every ordering, over all rows
SortQueries == {Query(<<>>, None, None, None, f, o) : f \in SortField, o \in SortOrder}

Queries == TitleQueries \cup FilterQueries \cup SortQueries

(***************************************************************************)
(* The operations of the Repository trait, as SqliteRepo implements them.  *)
(***************************************************************************)
Ok(v) == [ok |-> TRUE, val |-> v]

\* RepoError::Sqlite
ErrSqlite == [ok |-> FALSE, err |-> "Sqlite"]

\* .expect("Failed to open DB") on an Err: a panic, no value is returned
Panicked == [ok |-> FALSE, err |-> "panic"]

\* SqliteRepo::new has returned a repository
Constructed == ~(call.op = "new" /\ ~ret.ok)

\* the callers that share the repository
Threads == {"t1", "t2"}

\* the Mutex is not held
Free == "free"

\* a caller between calls, n calls made
NoCall(n) == [op |-> "none", calls |-> n]

\* a statement on the table of a store init has not run on: no such table
NoTable(c, it) ==
    /\ Constructed
    /\ ~schema
    /\ call' = c
    /\ ret' = ErrSqlite
    /\ item' = it
    /\ prev' = table
    /\ UNCHANGED <<issued, lock, pc, local>>
    /\ UNCHANGED <<schema, table, seq>>

\* SqliteRepo::new: Connection::open gives the connection, or fails and the
\* expect panics
Init ==
    /\ schema = FALSE
    /\ table = {}
    /\ seq = 0
    /\ prev = {}
    /\ call = [op |-> "new"]
    /\ ret \in {Ok(None), Panicked}
    /\ item = None
    /\ issued = <<>>
    /\ lock = Free
    /\ pc = [t \in Threads |-> "idle"]
    /\ local = [t \in Threads |-> NoCall(0)]

\* init that drops the table and makes it anew
InitSchema_recreate ==
    /\ Constructed
    /\ schema' = TRUE
    /\ table' = {}
    /\ seq' = 0
    /\ call' = [op |-> "init"]
    /\ ret' = Ok(None)
    /\ item' = None
    /\ prev' = table
    /\ UNCHANGED <<issued, lock, pc, local>>

\* fn init
InitSchema ==
    /\ Constructed
    /\ schema' = TRUE
    /\ call' = [op |-> "init"]
    /\ ret' = Ok(None)
    /\ item' = None
    /\ prev' = table
    /\ UNCHANGED <<issued, lock, pc, local>>
    /\ UNCHANGED <<table, seq>>

\* fn add
Add ==
    \E it \in Items :
        \/ NoTable([op |-> "add", item |-> it], it)
        \/ /\ schema
           /\ Cardinality(table) < MaxRows
           /\ NextRowid(table, seq) <= MaxSeq
           /\ LET id == NextRowid(table, seq)
              IN  /\ table' = table \cup {InsertRow(id, it)}
                  /\ seq' = id
                  /\ item' = [it EXCEPT !.id = Some(id)]
                  /\ ret' = Ok(id)
                  /\ issued' = Append(issued, id)
           /\ call' = [op |-> "add", item |-> it]
           /\ prev' = table
           /\ UNCHANGED <<lock, pc, local>>
           /\ UNCHANGED schema

\* fn update
Update ==
    \E it \in UpdateItems :
        \/ NoTable([op |-> "update", item |-> it], it)
        \/ /\ schema
           /\ table' = UpdateRows(table, it)
           /\ call' = [op |-> "update", item |-> it]
           /\ ret' = Ok(None)
           /\ item' = it
           /\ prev' = table
           /\ UNCHANGED <<issued, lock, pc, local>>
           /\ UNCHANGED <<schema, seq>>

\* fn delete
Delete ==
    \E id \in Ids :
        \/ NoTable([op |-> "delete", id |-> id], None)
        \/ /\ schema
           /\ table' = DeleteRows(table, id)
           /\ call' = [op |-> "delete", id |-> id]
           /\ ret' = Ok(None)
           /\ item' = None
           /\ prev' = table
           /\ UNCHANGED <<issued, lock, pc, local>>
           /\ UNCHANGED <<schema, seq>>

\* fn get
Get ==
    \E id \in Ids :
        \/ NoTable([op |-> "get", id |-> id], None)
        \/ /\ schema
           /\ call' = [op |-> "get", id |-> id]
           /\ ret' = Ok(GetResult(table, id))
           /\ item' = None
           /\ prev' = table
           /\ UNCHANGED <<issued, lock, pc, local>>
           /\ UNCHANGED <<schema, table, seq>>

\* fn list, on a query of Qs
ListOver(Qs) ==
    \E q \in Qs :
        \/ NoTable([op |-> "list", q |-> q], None)
        \/ /\ schema
           /\ call' = [op |-> "list", q |-> q]
           /\ \E out \in ListResults(table, q) : ret' = Ok(out)
           /\ item' = None
           /\ prev' = table
           /\ UNCHANGED <<issued, lock, pc, local>>
           /\ UNCHANGED <<schema, table, seq>>

\* fn stats
GetStats ==
    \/ NoTable([op |-> "stats"], None)
    \/ /\ schema
       /\ call' = [op |-> "stats"]
       /\ \E st \in StatsResults(table) : ret' = Ok(st)
       /\ item' = None
       /\ prev' = table
       /\ UNCHANGED <<issued, lock, pc, local>>
       /\ UNCHANGED <<schema, table, seq>>

\* list with the default query: every row, by title
ListAll == ListOver({QueryDefault})

\* list with a query of the bounded set
List == ListOver(Queries)

\* the repository under its writers
Next == InitSchema \/ Add \/ Update \/ Delete \/ Get \/ ListAll \/ GetStats

Spec == Init /\ [][Next]_vars

\* the repository under add and the queries of list
NextQuery == InitSchema \/ Add \/ List \/ GetStats

SpecQuery == Init /\ [][NextQuery]_vars

(***************************************************************************)
(* Storage errors.  Any statement may fail in SQLite (disk full, I/O       *)
(* error, busy file); a failed statement is rolled back by SQLite, rusqlite *)
(* returns Err and the `?` after the call returns it to the caller.        *)
(***************************************************************************)
\* a call on an initialised store whose statement failed
Fails(c, it) ==
    /\ Constructed
    /\ schema
    /\ call' = c
    /\ ret' = ErrSqlite
    /\ item' = it
    /\ prev' = table
    /\ UNCHANGED <<issued, lock, pc, local>>
    /\ UNCHANGED <<schema, table, seq>>

\* add writing the id into the record before looking at the outcome of the INSERT
AddItemAfter_early(it, ok, id) == [it EXCEPT !.id = Some(id)]

\* add: the caller's record after the INSERT; `?` returns on Err before
\* item.id = Some(id) is reached
AddItemAfter(it, ok, id) == IF ok THEN [it EXCEPT !.id = Some(id)] ELSE it

\* fn add, the INSERT failing
AddFails ==
    \E it \in Items :
        Fails([op |-> "add", item |-> it], AddItemAfter(it, FALSE, seq))

\* fn update, the UPDATE failing
UpdateFails ==
    \E it \in UpdateItems : Fails([op |-> "update", item |-> it], it)

\* fn delete, the DELETE failing
DeleteFails ==
    \E id \in Ids : Fails([op |-> "delete", id |-> id], None)

\* fn init, a statement of the batch failing: the statements before it stay
\* done, so CREATE TABLE may have made the (empty) table
InitFails ==
    /\ Constructed
    /\ schema' \in {schema, TRUE}
    /\ call' = [op |-> "init"]
    /\ ret' = ErrSqlite
    /\ item' = None
    /\ prev' = table
    /\ UNCHANGED <<issued, lock, pc, local>>
    /\ UNCHANGED <<table, seq>>

\* the writers, each succeeding or failing
NextStorage ==
    \/ InitSchema \/ Add \/ Update \/ Delete
    \/ InitFails \/ AddFails \/ UpdateFails \/ DeleteFails

SpecStorage == Init /\ [][NextStorage]_vars

(***************************************************************************)
(* Threads.  SqliteRepo is shared by reference; every operation begins     *)
(* with self.conn.lock().unwrap() and holds the guard until it returns.    *)
(* A thread is idle, waits in lock(), runs its statements one by one, and  *)
(* is done when it holds its result just before returning.  local[t] keeps *)
(* the call of thread t: its arguments, the statements done (step), what   *)
(* they gave (acc, res), the times it took the lock (acq) and the table as *)
(* it was when the lock was taken (seen).                                  *)
(***************************************************************************)
\* the calls a thread makes
ThreadCalls ==
    { [op |-> "init"],
      [op |-> "add", item |-> MediaItem(None, <<Ch.A>>, "Book", "Finished", Some(9), Some(<<Ch.n>>), None, 0, 3)],
      [op |-> "add", item |-> MediaItem(None, <<Ch.a, Ch.b>>, "Movie", "Planned", Some(9), None, Some(<<Ch.p>>), 2, 2)],
      [op |-> "update", item |-> MediaItem(Some(1), <<Ch.a, Ch.b>>, "Music", "InProgress", None, None, Some(<<Ch.p>>), 5, 7)],
      [op |-> "delete", id |-> 1],
      [op |-> "get", id |-> 1],
      [op |-> "list", q |-> QueryDefault],
      [op |-> "stats"] }

\* a call of thread t that has not yet asked for the lock
InCall(c, n) ==
    [op |-> c.op, arg |-> c, calls |-> n, step |-> 0, acq |-> 0,
     seen |-> {}, acc |-> <<>>, res |-> Ok(None)]

\* a lock() that does not wait for the holder
CanLock_always(l) == TRUE

\* Mutex::lock returns once no thread holds the guard
CanLock(l) == l = Free

\* a guard that is kept when the operation returns an error
LockAfterReturn_leak(t, r) == IF r.ok THEN Free ELSE t

\* the MutexGuard `conn` is dropped when the function returns, by the last
\* expression or by `?`
LockAfterReturn(t, r) == Free

\* the caller enters an operation
Begin(t) ==
    /\ Constructed
    /\ pc[t] = "idle"
    /\ local[t].calls < MaxCalls
    /\ \E c \in ThreadCalls : local' = [local EXCEPT ![t] = InCall(c, local[t].calls)]
    /\ pc' = [pc EXCEPT ![t] = "wait"]
    /\ UNCHANGED <<schema, table, seq, issued, lock, call, ret, prev, item>>

\* let conn = self.conn.lock().unwrap();
Acquire(t) ==
    /\ pc[t] = "wait"
    /\ CanLock(lock)
    /\ lock' = t
    /\ pc' = [pc EXCEPT ![t] = "run"]
    /\ local' = [local EXCEPT ![t].acq = @ + 1, ![t].seen = table]
    /\ UNCHANGED <<schema, table, seq, issued, call, ret, prev, item>>

\* thread t has its result r
Finish(t, r) ==
    /\ pc' = [pc EXCEPT ![t] = "done"]
    /\ local' = [local EXCEPT ![t].step = @ + 1, ![t].res = r]
    /\ UNCHANGED <<lock, call, ret, prev, item>>

\* thread t goes on to its next statement, keeping v
Proceed(t, v) ==
    /\ pc' = pc
    /\ local' = [local EXCEPT ![t].step = @ + 1, ![t].acc = Append(@, v)]
    /\ UNCHANGED <<lock, call, ret, prev, item>>

\* thread t is about to run statement number k of operation op
At(t, op, k) == pc[t] = "run" /\ local[t].op = op /\ local[t].step = k

\* a statement of add, update, delete, get, list or stats returns Err (no
\* such table before init, or a storage error) and `?` leaves the operation;
\* last_insert_rowid cannot fail
StmtFails(t) ==
    /\ pc[t] = "run"
    /\ local[t].op # "init"
    /\ ~At(t, "add", 1)
    /\ Finish(t, ErrSqlite)
    /\ UNCHANGED <<schema, table, seq, issued>>

\* init: a statement of the batch returns Err; the statements before it are
\* committed each on its own, so CREATE TABLE may have made the (empty) table
StmtCreateFails(t) ==
    /\ At(t, "init", 0)
    /\ schema' \in {schema, TRUE}
    /\ Finish(t, ErrSqlite)
    /\ UNCHANGED <<table, seq, issued>>

\* init: the batch of CREATE ... IF NOT EXISTS
StmtCreate(t) ==
    /\ At(t, "init", 0)
    /\ schema' = TRUE
    /\ Finish(t, Ok(None))
    /\ UNCHANGED <<table, seq, issued>>

\* add: the INSERT
StmtInsert(t) ==
    /\ At(t, "add", 0)
    /\ schema
    /\ Cardinality(table) < MaxRows
    /\ NextRowid(table, seq) <= MaxSeq
    /\ LET id == NextRowid(table, seq)
       IN  /\ table' = table \cup {InsertRow(id, local[t].arg.item)}
           /\ seq' = id
           /\ issued' = Append(issued, id)
           /\ Proceed(t, id)
    /\ UNCHANGED schema

\* add: conn.last_insert_rowid(), the id of the last INSERT on the connection
StmtLastRowid(t) ==
    /\ At(t, "add", 1)
    /\ Finish(t, Ok(seq))
    /\ UNCHANGED <<schema, table, seq, issued>>

\* update: the UPDATE
StmtUpdate(t) ==
    /\ At(t, "update", 0)
    /\ schema
    /\ table' = UpdateRows(table, local[t].arg.item)
    /\ Finish(t, Ok(None))
    /\ UNCHANGED <<schema, seq, issued>>

\* delete: the DELETE
StmtDelete(t) ==
    /\ At(t, "delete", 0)
    /\ schema
    /\ table' = DeleteRows(table, local[t].arg.id)
    /\ Finish(t, Ok(None))
    /\ UNCHANGED <<schema, seq, issued>>

\* get: the SELECT ... WHERE id=?1
StmtGet(t) ==
    /\ At(t, "get", 0)
    /\ schema
    /\ Finish(t, Ok(GetResult(table, local[t].arg.id)))
    /\ UNCHANGED <<schema, table, seq, issued>>

\* list: the SELECT built from the query
StmtList(t) ==
    /\ At(t, "list", 0)
    /\ schema
    /\ \E out \in ListResults(table, local[t].arg.q) : Finish(t, Ok(out))
    /\ UNCHANGED <<schema, table, seq, issued>>

\* stats: SELECT COUNT(*) FROM media
StmtCountAll(t) ==
    /\ At(t, "stats", 0)
    /\ schema
    /\ Proceed(t, CountAll(table))
    /\ UNCHANGED <<schema, table, seq, issued>>

\* stats: SELECT category, COUNT(*) FROM media GROUP BY category
StmtGroups(t) ==
    /\ At(t, "stats", 1)
    /\ schema
    /\ \E st \in StatsResults(table) : Proceed(t, st.by_category)
    /\ UNCHANGED <<schema, table, seq, issued>>

\* stats: SELECT COUNT(*) FROM media WHERE status = ?1, then the Stats value
StmtCountFinished(t) ==
    /\ At(t, "stats", 2)
    /\ schema
    /\ LET total == local[t].acc[1]
           finished == CountFinished(table)
       IN  Finish(t, Ok([total |-> total,
                         by_category |-> local[t].acc[2],
                         finished |-> finished,
                         unfinished |-> total - finished]))
    /\ UNCHANGED <<schema, table, seq, issued>>

\* the next statement of the operation thread t is in
Exec(t) ==
    \/ StmtFails(t)
    \/ StmtCreateFails(t)
    \/ StmtCreate(t)
    \/ StmtInsert(t)
    \/ StmtLastRowid(t)
    \/ StmtUpdate(t)
    \/ StmtDelete(t)
    \/ StmtGet(t)
    \/ StmtList(t)
    \/ StmtCountAll(t)
    \/ StmtGroups(t)
    \/ StmtCountFinished(t)

\* the operation returns its result and the guard goes out of scope
Return(t) ==
    /\ pc[t] = "done"
    /\ lock' = LockAfterReturn(t, local[t].res)
    /\ pc' = [pc EXCEPT ![t] = "idle"]
    /\ local' = [local EXCEPT ![t] = NoCall(local[t].calls + 1)]
    /\ UNCHANGED <<schema, table, seq, issued, call, ret, prev, item>>

\* a thread inside an operation takes its next step
Advance(t) == Acquire(t) \/ Exec(t) \/ Return(t)

NextThreads == \E t \in Threads : Begin(t) \/ Advance(t)

SpecThreads == Init /\ [][NextThreads]_vars

\* a thread inside an operation is not held up for ever while it can step
SpecThreadsFair ==
    Init /\ [][NextThreads]_vars /\ \A t \in Threads : WF_vars(Advance(t))

(***************************************************************************)
(* The codes of the enums.  The four conversions are private pure          *)
(* functions; here they are applied to inputs drawn at the start: an       *)
(* integer as a column may hold it, a category and a status.               *)
(***************************************************************************)
\* integers handed to i_to_cat and i_to_status
Codes == (0 - MaxCode)..MaxCode

CodecOps == {"input", "cat_to_i", "i_to_cat", "status_to_i", "i_to_status",
             "cat_roundtrip", "status_roundtrip"}

InitCodec ==
    /\ schema = FALSE
    /\ table = {}
    /\ seq = 0
    /\ prev = {}
    /\ \E i \in Codes, c \in Category, s \in Status :
          call = [op |-> "input", code |-> i, cat |-> c, status |-> s]
    /\ ret = Ok(None)
    /\ item = None
    /\ issued = <<>>
    /\ lock = Free
    /\ pc = [t \in Threads |-> "idle"]
    /\ local = [t \in Threads |-> NoCall(0)]

\* one conversion applied to the drawn input
Applied(op, v) ==
    /\ call.op \in CodecOps
    /\ call' = [call EXCEPT !.op = op]
    /\ ret' = Ok(v)
    /\ UNCHANGED <<schema, table, seq, prev, item, issued, lock, pc, local>>

EncodeCat == Applied("cat_to_i", cat_to_i(call.cat))

DecodeCat == Applied("i_to_cat", i_to_cat(call.code))

EncodeStatus == Applied("status_to_i", status_to_i(call.status))

DecodeStatus == Applied("i_to_status", i_to_status(call.code))

\* add's encoding of the category followed by row_to_item's decoding
CatRoundTrip == Applied("cat_roundtrip", i_to_cat(cat_to_i(call.cat)))

\* add's encoding of the status followed by row_to_item's decoding
StatusRoundTrip == Applied("status_roundtrip", i_to_status(status_to_i(call.status)))

NextCodec ==
    EncodeCat \/ DecodeCat \/ EncodeStatus \/ DecodeStatus \/ CatRoundTrip \/ StatusRoundTrip

SpecCodec == InitCodec /\ [][NextCodec]_vars

(***************************************************************************)
(* Helpers of the properties.                                              *)
(***************************************************************************)
\* the elements of a sequence
Range(s) == {s[i] : i \in 1..Len(s)}

\* the ids of the rows of a table
IdsOf(t) == {r.id : r \in t}

\* an instant with its sub-second part dropped
WholeSecond(dt) == (dt \div TicksPerSec) * TicksPerSec

\* the last call was op, on a store that has its table, and it returned Ok
Returned(op) == call.op = op /\ schema /\ ret.ok

(***************************************************************************)
(* C1.  add then get.                                                      *)
(***************************************************************************)
\* C1, as claimed: after an add that succeeded, the call has returned an id, the caller's
\* record carries that id, and get(id) gives a record equal to the caller's
\* record in every field, created_at and updated_at included.
C1_AddThenGetEqual ==
    Returned("add") =>
        /\ item.id = Some(ret.val)
        /\ GetResult(table, ret.val) = Some(item)

\* C1, amended: after an add that succeeded, the call has returned an id, the caller's record
\* carries that id and is otherwise as passed, and get(id) gives a record
\* equal to the caller's record in every field except that created_at and
\* updated_at are rounded down to the whole second.
C1_AddThenGetWholeSeconds ==
    Returned("add") =>
        /\ item.id = Some(ret.val)
        /\ item = [call.item EXCEPT !.id = Some(ret.val)]
        /\ GetResult(table, ret.val) =
              Some([item EXCEPT !.created_at = WholeSecond(item.created_at),
                                !.updated_at = WholeSecond(item.updated_at)])

\* an add of a record whose two timestamps have a sub-second part and differ
C1_Witness ==
    /\ Returned("add")
    /\ item.created_at % TicksPerSec # 0
    /\ item.updated_at % TicksPerSec # 0
    /\ item.created_at # item.updated_at
    /\ IsSome(item.rating)

(***************************************************************************)
(* C2.  update touches the mutable columns of one row.                     *)
(***************************************************************************)
\* C2: after an update(record) that succeeded, the rows other than the one with record.id are
\* the rows they were, and the row with record.id still has its id and its
\* created_at, whatever created_at the record carries.
C2_UpdateIsolation ==
    Returned("update") =>
        /\ Cardinality(table) = Cardinality(prev)
        /\ \A r \in prev :
              IF Some(r.id) = call.item.id
              THEN \E r2 \in table : r2.id = r.id /\ r2.created_at = r.created_at
              ELSE r \in table

\* an update of one of two stored rows, with a record that carries another
\* created_at than the row, that changed the row
C2_Witness ==
    /\ Returned("update")
    /\ Cardinality(prev) = 2
    /\ table # prev
    /\ \E r \in prev : /\ Some(r.id) = call.item.id
                        /\ r.created_at # timestamp(call.item.created_at)

(***************************************************************************)
(* C3.  update and delete of an id no row has.                             *)
(***************************************************************************)
\* C3: on an initialised store, an update whose record has an id no stored
\* row has, or no id, and a delete of an id no stored row has, return Ok and
\* leave the rows as they were.
C3_MissingIdNoOp ==
    /\ (call.op = "update" /\ schema /\ ~\E r \in prev : Some(r.id) = call.item.id)
          => (ret.ok /\ table = prev)
    /\ (call.op = "delete" /\ schema /\ ~\E r \in prev : r.id = call.id)
          => (ret.ok /\ table = prev)

\* an update with a record that has no id, on a table that has rows
C3_Witness ==
    /\ call.op = "update"
    /\ schema
    /\ call.item.id = None
    /\ Cardinality(prev) = 2
    /\ ret.ok

(***************************************************************************)
(* C4.  delete removes one row.                                            *)
(***************************************************************************)
\* C4: after a delete(id) of a stored row that succeeded, get(id) gives Ok(None), list with
\* the default query has no record with that id, and it has every other
\* row of before, as it was.
C4_DeleteExactlyOne ==
    (Returned("delete") /\ \E r \in prev : r.id = call.id) =>
        /\ GetResult(table, call.id) = None
        /\ \A out \in ListResults(table, QueryDefault) :
              /\ \A i \in 1..Len(out) : out[i].id # Some(call.id)
              /\ Range(out) = {row_to_item(r) : r \in {x \in prev : x.id # call.id}}
              /\ Len(out) = Cardinality(prev) - 1

\* a delete of the row with the higher id of two stored rows
C4_Witness ==
    /\ Returned("delete")
    /\ Cardinality(prev) = 2
    /\ \E r \in prev : r.id = call.id /\ \E x \in prev : x.id < r.id
    /\ Cardinality(table) = 1

(***************************************************************************)
(* C5, C6.  The filters of list.                                           *)
(***************************************************************************)
\* text t has sub in it, character for character
Contains(t, sub) ==
    \E k \in 0..(Len(t) - Len(sub)) : SubSeq(t, k + 1, k + Len(sub)) = sub

\* record it passes every filter query q sets
Satisfies(q, it) ==
    /\ Contains(it.title, Trim(q.title_substr))
    /\ IsSome(q.category) => it.category = Unwrap(q.category)
    /\ IsSome(q.status) => it.status = Unwrap(q.status)
    /\ IsSome(q.min_rating) =>
          (IsSome(it.rating) /\ Unwrap(it.rating) >= Unwrap(q.min_rating))

\* C5, as claimed: a list that succeeded returns, each once, exactly the stored records that
\* pass all the set filters at once (title contains the trimmed text, category
\* equal, status equal, rating at least the minimum); with no filter set,
\* every stored record.
C5_ListIsFilterConjunction ==
    Returned("list") =>
        /\ Range(ret.val) = {it \in {row_to_item(r) : r \in table} : Satisfies(call.q, it)}
        /\ \A i, j \in 1..Len(ret.val) : i # j => ret.val[i] # ret.val[j]

\* C6, as claimed: with the title filter alone, a record is returned if and
\* only if its title contains the trimmed query text character for character
\* (letter case counts, % and _ stand for themselves).
C6_TitleFilterLiteral ==
    (Returned("list") /\ call.q \in TitleQueries) =>
        \A r \in table :
            (row_to_item(r) \in Range(ret.val))
                <=> Contains(r.title, Trim(call.q.title_substr))

(***************************************************************************)
(* C7, C8.  The orderings of list.                                         *)
(***************************************************************************)
\* C7: in the result of a list sorted by Rating, in either direction, no record without a rating
\* comes before a record with one, and the rated records are in ascending
\* (Asc) or descending (Desc) order of rating.
C7_UnratedLast ==
    (Returned("list") /\ call.q.sort_field = "Rating") =>
        \A i, j \in 1..Len(ret.val) :
            i < j =>
                LET a == ret.val[i]
                    b == ret.val[j]
                IN  /\ ~IsSome(a.rating) => ~IsSome(b.rating)
                    /\ (IsSome(a.rating) /\ IsSome(b.rating)) =>
                          IF call.q.sort_order = "Asc"
                          THEN Unwrap(a.rating) <= Unwrap(b.rating)
                          ELSE Unwrap(a.rating) >= Unwrap(b.rating)

\* a list by Rating ascending that returned a rated and an unrated record
C7_Witness ==
    /\ Returned("list")
    /\ call.q.sort_field = "Rating"
    /\ call.q.sort_order = "Asc"
    /\ Len(ret.val) = 2
    /\ IsSome(ret.val[1].rating)
    /\ ~IsSome(ret.val[2].rating)

\* C8: in the result of a list sorted by Category or Status the records follow the requested
\* direction over the integer code; records with the same category are by
\* title ascending, records with the same status by updated_at descending,
\* and sorted by Rating records with the same rating (or both with none)
\* are by title ascending, in either direction.
C8_TieBreaks ==
    Returned("list") =>
        \A i, j \in 1..Len(ret.val) :
            i < j =>
                LET a == ret.val[i]
                    b == ret.val[j]
                    asc == call.q.sort_order = "Asc"
                IN  CASE call.q.sort_field = "Category" ->
                           /\ IF asc THEN cat_to_i(a.category) <= cat_to_i(b.category)
                                     ELSE cat_to_i(a.category) >= cat_to_i(b.category)
                           /\ a.category = b.category => TextCmp(a.title, b.title) <= 0
                      [] call.q.sort_field = "Status" ->
                           /\ IF asc THEN status_to_i(a.status) <= status_to_i(b.status)
                                     ELSE status_to_i(a.status) >= status_to_i(b.status)
                           /\ a.status = b.status => a.updated_at >= b.updated_at
                      [] call.q.sort_field = "Rating" ->
                           a.rating = b.rating => TextCmp(a.title, b.title) <= 0
                      [] OTHER -> TRUE

\* a list by Category descending that returned two records of one category
\* with different titles
C8_Witness ==
    /\ Returned("list")
    /\ call.q.sort_field = "Category"
    /\ call.q.sort_order = "Desc"
    /\ Len(ret.val) = 2
    /\ ret.val[1].category = ret.val[2].category
    /\ ret.val[1].title # ret.val[2].title

(***************************************************************************)
(* C9, C10.  stats.                                                        *)
(***************************************************************************)
RECURSIVE SumCounts(_)
SumCounts(by_category) ==
    IF by_category = <<>> THEN 0
    ELSE Head(by_category)[2] + SumCounts(Tail(by_category))

\* C9: the snapshot stats returns has unfinished = total - finished and
\* counts in by_category that add up to total.
C9_StatsConsistent ==
    Returned("stats") =>
        /\ ret.val.unfinished = ret.val.total - ret.val.finished
        /\ SumCounts(ret.val.by_category) = ret.val.total

\* a stats call on two rows of two categories, one finished, one of them
\* with no rating
C9_Witness ==
    /\ Returned("stats")
    /\ ret.val.total = 2
    /\ ret.val.finished = 1
    /\ Len(ret.val.by_category) = 2
    /\ \E r \in table : ~IsSome(r.rating)

\* C10: the snapshot stats returns is of the table as it is: total is the
\* number of rows, finished the number of rows with status Finished, and
\* by_category has one entry, with the number of its rows, for each category
\* that has a row, and none for the others.
C10_StatsOfWholeTable ==
    Returned("stats") =>
        LET rowsOf(c) == {r \in table : i_to_cat(r.category) = c}
            entriesOf(c) == {i \in 1..Len(ret.val.by_category) :
                               ret.val.by_category[i][1] = cat_as_str(c)}
        IN  /\ ret.val.total = Cardinality(table)
            /\ ret.val.finished =
                  Cardinality({r \in table : i_to_status(r.status) = "Finished"})
            /\ \A c \in Category :
                  IF rowsOf(c) = {}
                  THEN entriesOf(c) = {}
                  ELSE /\ Cardinality(entriesOf(c)) = 1
                       /\ \A i \in entriesOf(c) :
                             ret.val.by_category[i][2] = Cardinality(rowsOf(c))

\* a stats call, after writes, on two rows of one category of which one is
\* finished
C10_Witness ==
    /\ Returned("stats")
    /\ Cardinality(table) = 2
    /\ Len(ret.val.by_category) = 1
    /\ ret.val.finished = 1
    /\ seq = MaxSeq

(***************************************************************************)
(* C11.  init on a store that has the schema.                              *)
(***************************************************************************)
\* C11: an init on a store that already has the schema, whatever calls came
\* before, returns Ok and leaves the schema, every stored row and the id
\* counter as they were.
C11_InitIdempotent ==
    [][(schema /\ call'.op = "init")
          => (ret'.ok /\ schema' /\ table' = table /\ seq' = seq)]_vars

\* an init that returned on a store holding two rows, after a delete has
\* left the id counter above the ids in the table
C11_Witness ==
    /\ Returned("init")
    /\ Cardinality(table) = 2
    /\ prev = table
    /\ seq = MaxSeq
    /\ \E i \in 1..MaxSeq : \A r \in table : r.id # i

(***************************************************************************)
(* C12.  The integer codes of Category and Status.                         *)
(***************************************************************************)
\* C12: every Category and every Status is encoded as its listed code
\* (Book=0, Movie=1, Game=2, Music=3, Other=4; Planned=0, InProgress=1,
\* Finished=2) and decoding that code gives the value back; decoding any
\* integer outside the known codes, negative ones included, succeeds and
\* gives Other for a category and Planned for a status.
C12_CodesRoundTrip ==
    /\ call.op = "cat_to_i" =>
          ret.val = (CASE call.cat = "Book" -> 0 [] call.cat = "Movie" -> 1
                       [] call.cat = "Game" -> 2 [] call.cat = "Music" -> 3
                       [] call.cat = "Other" -> 4)
    /\ call.op = "status_to_i" =>
          ret.val = (CASE call.status = "Planned" -> 0
                       [] call.status = "InProgress" -> 1
                       [] call.status = "Finished" -> 2)
    /\ call.op = "cat_roundtrip" => ret.ok /\ ret.val = call.cat
    /\ call.op = "status_roundtrip" => ret.ok /\ ret.val = call.status
    /\ (call.op = "i_to_cat" /\ call.code \notin 0..4) =>
          ret.ok /\ ret.val = "Other"
    /\ (call.op = "i_to_status" /\ call.code \notin 0..2) =>
          ret.ok /\ ret.val = "Planned"

\* a negative code decoded as a category
C12_Witness ==
    /\ call.op = "i_to_cat"
    /\ call.code < 0
    /\ ret = Ok("Other")

(***************************************************************************)
(* C13.  Ids of stored rows.                                               *)
(***************************************************************************)
\* C13: in every state reached by add, update and delete no two stored rows
\* have the same id; the row an add stores carries the id that add returned,
\* and the rows stored before keep theirs; an update changes no id; a delete
\* takes away the row of its id only; every stored id is one add returned.
C13_IdsUniqueStable ==
    /\ Cardinality(IdsOf(table)) = Cardinality(table)
    /\ IdsOf(table) \subseteq Range(issued)
    /\ Returned("add") =>
          /\ ret.val \notin IdsOf(prev)
          /\ prev \subseteq table
          /\ IdsOf(table \ prev) = {ret.val}
          /\ item.id = Some(ret.val)
    /\ Returned("update") =>
          /\ IdsOf(table) = IdsOf(prev)
          /\ \A r \in prev : ~(IsSome(call.item.id) /\ r.id = Unwrap(call.item.id)) => r \in table
    /\ Returned("delete") =>
          /\ table \subseteq prev
          /\ IdsOf(prev \ table) \subseteq {call.id}

\* an update of a stored row that changed its contents, on a table of two
\* rows, after an earlier row was deleted
C13_Witness ==
    /\ Returned("update")
    /\ table # prev
    /\ Cardinality(table) = 2
    /\ Len(issued) = MaxSeq

(***************************************************************************)
(* C14.  Failed writes.                                                    *)
(***************************************************************************)
\* C14: when add, update, delete or init returns a storage error, the stored
\* rows are exactly the rows before the call, and after a failed add the
\* caller's record is the record passed in, with no id assigned.
C14_FailureLeavesRows ==
    (~ret.ok /\ call.op \in {"add", "update", "delete", "init"}) =>
        /\ ret = ErrSqlite
        /\ table = prev
        /\ call.op = "add" => (item = call.item /\ item.id = None)

\* an add that failed on an initialised store holding a row, after an
\* earlier add had been given an id
C14_Witness ==
    /\ call.op = "add"
    /\ ~ret.ok
    /\ schema
    /\ table # {}
    /\ seq > 0

(***************************************************************************)
(* C15.  Errors reach the caller as values.                                *)
(***************************************************************************)
\* C15: every call ends by returning, either Ok or one of the RepoError
\* kinds, and a failure to open the store file is returned as the resource
\* error kind (Io); no failure aborts the process.
C15_ErrorsReturned ==
    /\ ret.ok \/ ret.err \in {"Sqlite", "Io", "Other"}
    /\ (call.op = "new" /\ ~ret.ok) => ret.err = "Io"

(***************************************************************************)
(* C16.  One operation at a time.                                          *)
(***************************************************************************)
\* the thread is between taking the lock and returning
Holding(t) == pc[t] \in {"run", "done"}

\* C16: with several threads calling, at most one operation holds the
\* connection at a time; an operation takes the lock once and runs all its
\* statements under it; the table a reading operation sees does not change
\* while it runs, so the three counts of a stats call are counts of one
\* table state, and the id add returns is the id of the row it inserted.
C16_OneOperationAtATime ==
    /\ \A t, u \in Threads : (Holding(t) /\ Holding(u)) => t = u
    /\ \A t \in Threads :
          /\ Holding(t) <=> lock = t
          /\ Holding(t) => local[t].acq = 1
          /\ pc[t] = "wait" => local[t].acq = 0
          /\ (Holding(t) /\ local[t].op \in {"get", "list", "stats"}) =>
                table = local[t].seen
          /\ (pc[t] = "done" /\ local[t].res.ok) =>
                /\ local[t].op = "stats" =>
                      local[t].res.val \in StatsResults(local[t].seen)
                /\ local[t].op = "list" =>
                      local[t].res.val \in ListResults(local[t].seen, local[t].arg.q)
                /\ local[t].op = "get" =>
                      local[t].res.val = GetResult(local[t].seen, local[t].arg.id)
                /\ local[t].op = "add" =>
                      /\ local[t].res.val = local[t].acc[1]
                      /\ IdsOf(table \ local[t].seen) = {local[t].res.val}

\* a stats call that has taken two of its counts on a table with rows while
\* another thread waits in lock() with a write
C16_Witness ==
    \E t, u \in Threads :
        /\ At(t, "stats", 2)
        /\ table # {}
        /\ pc[u] = "wait"
        /\ local[u].op \in {"add", "update", "delete"}

(***************************************************************************)
(* C17.  The lock is released on every exit path.                          *)
(***************************************************************************)
\* C17: every operation releases the lock when it returns, with Ok or with
\* an error: a thread outside an operation never holds the lock, the lock
\* is free right after a return, and a caller waiting in lock() eventually
\* takes it and returns from its own operation.
C17_LockReleased ==
    /\ [](\A t \in Threads : pc[t] \in {"idle", "wait"} => lock # t)
    /\ [][\A t \in Threads : (pc[t] = "done" /\ pc'[t] = "idle") => lock' = Free]_vars
    /\ \A t \in Threads : (pc[t] = "wait") ~> (pc[t] = "idle")

\* a thread waits in lock() while the holder is about to return an error
C17_Witness ==
    \E t, u \in Threads :
        /\ pc[t] = "wait"
        /\ pc[u] = "done"
        /\ ~local[u].res.ok
        /\ schema

(***************************************************************************)
(* C18.  Ids are not reused.                                               *)
(***************************************************************************)
\* C18: over any sequence of calls, each id returned by add is strictly
\* greater than every id returned by an earlier add, also after the row with
\* the highest id, or every row, has been deleted.
C18_IdsNeverReused ==
    /\ \A i, j \in 1..Len(issued) : i < j => issued[i] < issued[j]
    /\ Returned("add") =>
          /\ Len(issued) > 0
          /\ issued[Len(issued)] = ret.val
          /\ \A i \in 1..(Len(issued) - 1) : issued[i] < ret.val

\* an add that returned after every row, the one with the highest id
\* included, had been deleted
C18_Witness ==
    /\ Returned("add")
    /\ prev = {}
    /\ Len(issued) = MaxSeq

(***************************************************************************)
(* C19.  The minimum rating of list.                                       *)
(***************************************************************************)
\* record it passes the filters of q other than the minimum rating
PassesOthers(q, it) ==
    /\ Contains(it.title, Trim(q.title_substr))
    /\ IsSome(q.category) => it.category = Unwrap(q.category)
    /\ IsSome(q.status) => it.status = Unwrap(q.status)

\* C19, as claimed: when the query sets a minimum rating, a minimum of 0
\* included, list returns no record without a rating, and returns a rated
\* record exactly when its rating is at least the minimum and the record
\* passes the other filters the query sets.
C19_MinRatingFilter ==
    (Returned("list") /\ IsSome(call.q.min_rating)) =>
        \A r \in table :
            LET it == row_to_item(r)
            IN  IF IsSome(it.rating)
                THEN (it \in Range(ret.val)) <=>
                        /\ Unwrap(it.rating) >= Unwrap(call.q.min_rating)
                        /\ PassesOthers(call.q, it)
                ELSE it \notin Range(ret.val)

====
